---- MODULE Spec2Model ----
(***************************************************************************)
(* Model of the review pipeline of open-review (src/src/llm/client.ts):    *)
(*   - ReviewOrchestrator.mapLineToDiff      (specification SpecMap)       *)
(*   - LLMClient.parseReviewResponse         (specification SpecParse)     *)
(*   - ReviewOrchestrator.createReviewComments (specification SpecComments)*)
(*   - ReviewOrchestrator.runReview          (specification Spec)          *)
(*   - withRetry, as the specification describes it (SpecRetry)            *)
(*                                                                         *)
(* Text is modelled as a sequence of one-character strings, so that the    *)
(* prefix tests and the hunk-header regular expression of the source are   *)
(* computed on characters.  A JavaScript number is a rational              *)
(* [num |-> n, den |-> d] with d = 1 for an integer.                       *)
(***************************************************************************)
EXTENDS Integers, Sequences, FiniteSets, TLC

VARIABLES
    \* ---- mapLineToDiff (client.ts 509-541)
    patchLines,     \* parameter patchLines: string[]
    targetLine,     \* parameter targetLine: number
    i,              \* loop index (0-based, as in the source)
    currentLine,    \* let currentLine
    inHunk,         \* let inHunk
    mapResult,      \* returned value (NULL for null)
    mapPc,          \* "idle" | "loop" | "done"
    \* ---- parseReviewResponse (client.ts 128-164)
    response,       \* parameter response: the raw engine text, as tokens
    parseOut,       \* outcome: [threw |-> BOOLEAN, value |-> ReviewResult]
    parsePc,        \* "idle" | "call" | "done"
    \* ---- createReviewComments (client.ts 460-504)
    cmIssues,       \* parameter issues: ReviewIssue[]
    cmPatch,        \* parameter patch: string
    cmOut,          \* outcome: [threw |-> BOOLEAN, value |-> ReviewComment[]]
    cmPc,           \* "idle" | "call" | "done"
    \* ---- runReview (client.ts 255-402)
    maxFiles,       \* this.config.maxFiles
    postAsReview,   \* this.config.postAsReview
    pc,             \* the awaited call of runReview, or "done" | "aborted" | "idle"
    files,          \* const files
    filesToReview,  \* const filesToReview
    fileIdx,        \* position of `file` in the for..of loop (1-based)
    allComments,    \* const allComments
    fileResults,    \* const fileResults
    overallSummary, \* const overallSummary
    report,         \* the returned ReviewSummary
    calls,          \* the calls made on github and llm, in order
    \* ---- withRetry (utils/retry, called at client.ts 45-60 and 208-220)
    maxAttempts,    \* option maxAttempts
    attempt,        \* number of invocations of the operation started so far
    inFlight,       \* number of invocations started and not yet settled
    outcomes,       \* how each settled invocation ended, in order
    waits,          \* the delays waited between invocations, in order
    retryOut,       \* what withRetry hands to its caller
    retryPc         \* "idle" | "invoke" | "inflight" | "wait" | "returned" | "threw"

mapVars == <<patchLines, targetLine, i, currentLine, inHunk, mapResult, mapPc>>
parseVars == <<response, parseOut, parsePc>>
cmVars == <<cmIssues, cmPatch, cmOut, cmPc>>
runVars == <<maxFiles, postAsReview, pc, files, filesToReview, fileIdx,
             allComments, fileResults, overallSummary, report, calls>>
retryVars == <<maxAttempts, attempt, inFlight, outcomes, waits, retryOut, retryPc>>

vars == <<mapVars, parseVars, cmVars, runVars, retryVars>>

-----------------------------------------------------------------------------
(* Bounds *)

MaxPatchLen == 4     \* longest patchLines explored by SpecMap
MaxTarget == 4       \* largest integer target line explored
MaxBelowZero == 1    \* integer target lines are explored down to -MaxBelowZero
MaxReviews == 2      \* longest decoded reviews array explored
MaxIssues == 2       \* longest issue list given to createReviewComments
MaxFetched == 2      \* longest file list returned by getChangedFiles
MaxAttempts == 3     \* largest maxAttempts option explored

-----------------------------------------------------------------------------
(* JavaScript values *)

NULL == 0            \* mapLineToDiff's null; positions are i + 1 >= 1

JsInt(n) == [num |-> n, den |-> 1]
JsHalf(n) == [num |-> n, den |-> 2]       \* n / 2 with n odd, e.g. 7/2 = 3.5

\* currentLine === targetLine, currentLine being an integer counter
StrictEqInt(k, v) == v.den = 1 /\ v.num = k

-----------------------------------------------------------------------------
(* Characters and text *)

Digit == {"0", "1", "2", "3", "4", "5", "6", "7", "8", "9"}

DigitVal(c) ==
    CASE c = "0" -> 0 [] c = "1" -> 1 [] c = "2" -> 2 [] c = "3" -> 3
      [] c = "4" -> 4 [] c = "5" -> 5 [] c = "6" -> 6 [] c = "7" -> 7
      [] c = "8" -> 8 [] c = "9" -> 9

\* decimal digits of a natural number
RECURSIVE Digits(_)
Digits(n) ==
    IF n < 10 THEN <<CHOOSE c \in Digit : DigitVal(c) = n>>
    ELSE Digits(n \div 10) \o <<CHOOSE c \in Digit : DigitVal(c) = n % 10>>

\* the string made of a sequence of characters
RECURSIVE Concat(_)
Concat(chars) == IF chars = << >> THEN "" ELSE chars[1] \o Concat(Tail(chars))

\* a natural number in a template literal
NumText(n) == Concat(Digits(n))

\* String.prototype.startsWith for a one-character prefix
startsWith(line, c) == Len(line) >= 1 /\ line[1] = c

\* s has the literal lit at index k (1-based)
HasLitAt(s, k, lit) ==
    /\ k + Len(lit) - 1 <= Len(s)
    /\ \A j \in 1..Len(lit) : s[k + j - 1] = lit[j]

\* index just after the longest run of digits that starts at k (k when none)
RECURSIVE DigitsEnd(_, _)
DigitsEnd(s, k) ==
    IF k <= Len(s) /\ s[k] \in Digit THEN DigitsEnd(s, k + 1) ELSE k

\* (?:,\d+)? at index k: index after the group when it matches, else k
OptCount(s, k) ==
    IF k <= Len(s) /\ s[k] = "," /\ DigitsEnd(s, k + 1) > k + 1
    THEN DigitsEnd(s, k + 1)
    ELSE k

\* parseInt(text, 10) of a non-empty run of digits
RECURSIVE parseInt(_)
parseInt(ds) ==
    IF Len(ds) = 0 THEN 0
    ELSE 10 * parseInt(SubSeq(ds, 1, Len(ds) - 1)) + DigitVal(ds[Len(ds)])

\* /@@ -\d+(?:,\d+)? \+(\d+)(?:,\d+)? @@/ tried at index k:
\* the captured group 1 as a sequence of digits, or << >> when no match at k
HunkMatchAt(s, k) ==
    IF ~HasLitAt(s, k, <<"@", "@", " ", "-">>) THEN << >>
    ELSE LET a == k + 4
             b == DigitsEnd(s, a)
         IN  IF b = a THEN << >>
             ELSE LET c == OptCount(s, b)
                  IN  IF ~HasLitAt(s, c, <<" ", "+">>) THEN << >>
                      ELSE LET d == c + 2
                               e == DigitsEnd(s, d)
                           IN  IF e = d THEN << >>
                               ELSE LET f == OptCount(s, e)
                                    IN  IF HasLitAt(s, f, <<" ", "@", "@">>)
                                        THEN SubSeq(s, d, e - 1)
                                        ELSE << >>

\* line.match(...): the regular expression is not anchored, so the leftmost
\* index at which it matches anywhere in the line is taken
RECURSIVE HunkMatchFrom(_, _)
HunkMatchFrom(s, k) ==
    IF k > Len(s) THEN << >>
    ELSE IF HunkMatchAt(s, k) # << >> THEN HunkMatchAt(s, k)
    ELSE HunkMatchFrom(s, k + 1)

hunkMatch(line) == HunkMatchFrom(line, 1)

-----------------------------------------------------------------------------
(* mapLineToDiff: one iteration of the for loop, on the scan state         *)
(* [currentLine, inHunk, result]; idx is the 0-based index i of the line   *)

\* MapStep with the prefix test widened: a '-' line is handled like a '+' line
MapStep_RemovedAsAdded(st, line, idx, target) ==
    IF hunkMatch(line) # << >>
    THEN [st EXCEPT !.inHunk = TRUE,
                    !.currentLine = parseInt(hunkMatch(line)) - 1]
    ELSE IF ~st.inHunk THEN st
    ELSE IF startsWith(line, "+") \/ startsWith(line, "-")
    THEN IF StrictEqInt(st.currentLine + 1, target)
         THEN [st EXCEPT !.currentLine = st.currentLine + 1,
                         !.result = idx + 1]
         ELSE [st EXCEPT !.currentLine = st.currentLine + 1]
    ELSE [st EXCEPT !.currentLine = st.currentLine + 1]

\* the mutant of MapStep: a context line can be the match
MapStep_ContextMatches(st, line, idx, target) ==
    IF hunkMatch(line) # << >>
    THEN [st EXCEPT !.inHunk = TRUE,
                    !.currentLine = parseInt(hunkMatch(line)) - 1]
    ELSE IF ~st.inHunk THEN st
    ELSE IF ~startsWith(line, "-")
    THEN IF StrictEqInt(st.currentLine + 1, target)
         THEN [st EXCEPT !.currentLine = st.currentLine + 1,
                         !.result = idx + 1]
         ELSE [st EXCEPT !.currentLine = st.currentLine + 1]
    ELSE st

MapStep(st, line, idx, target) ==
    IF hunkMatch(line) # << >>
    THEN [st EXCEPT !.inHunk = TRUE,
                    !.currentLine = parseInt(hunkMatch(line)) - 1]
    ELSE IF ~st.inHunk THEN st
    ELSE IF startsWith(line, "+")
    THEN IF StrictEqInt(st.currentLine + 1, target)
         THEN [st EXCEPT !.currentLine = st.currentLine + 1,
                         !.result = idx + 1]
         ELSE [st EXCEPT !.currentLine = st.currentLine + 1]
    ELSE IF ~startsWith(line, "-")
    THEN [st EXCEPT !.currentLine = st.currentLine + 1]
    ELSE st

MapStart == [currentLine |-> 0, inHunk |-> FALSE, result |-> NULL]

\* the scan state after the loop has run from index idx (0-based) to a
\* return or to the end of patchLines
RECURSIVE MapScan(_, _, _, _)
MapScan(st, lines, idx, target) ==
    IF st.result # NULL \/ idx >= Len(lines) THEN st
    ELSE MapScan(MapStep(st, lines[idx + 1], idx, target), lines, idx + 1, target)

mapLineToDiff(target, lines) == MapScan(MapStart, lines, 0, target).result

-----------------------------------------------------------------------------
(* Decoded JSON / JavaScript values.  An object is a function from         *)
(* FieldName to values in which an absent property reads as Undefined.     *)

FieldName == {"reviews", "summary", "line", "message", "severity",
              "category", "suggestion"}

Undefined == [t |-> "undefined"]
JNull == [t |-> "null"]
JNum(n, d) == [t |-> "num", num |-> n, den |-> d]
JStr(str) == [t |-> "str", s |-> str]
JArr(items) == [t |-> "arr", items |-> items]
\* an object literal: r is a record of the properties that are present
JObj(r) == [t |-> "obj",
            f |-> [n \in FieldName |-> IF n \in DOMAIN r THEN r[n] ELSE Undefined]]

\* v.name; reading a property of null or undefined throws a TypeError,
\* reading one of the modelled names from a number, string or array
\* gives undefined
PropThrows(v) == v.t \in {"null", "undefined"}
Prop(v, name) == IF v.t = "obj" THEN v.f[name] ELSE Undefined

\* ToBoolean
Truthy(v) ==
    CASE v.t \in {"undefined", "null"} -> FALSE
      [] v.t = "num" -> v.num # 0
      [] v.t = "str" -> v.s # ""
      [] OTHER -> TRUE

TypeofNumber(v) == v.t = "num"
IsArray(v) == v.t = "arr"
\* a || b
Or(a, b) == IF Truthy(a) THEN a ELSE b

-----------------------------------------------------------------------------
(* The raw engine text, as a sequence of tokens: a code fence (three        *)
(* backquotes), the label json, a newline, prose, or the JSON text of one  *)
(* value                                                                   *)

Fence == [k |-> "fence"]
JsonLabel == [k |-> "json"]
Newline == [k |-> "nl"]
Prose == [k |-> "prose"]
JsonText(v) == [k |-> "value", v |-> v]         \* JSON.stringify(v)

\* response.replace(/<fence>json\n?|\n?<fence>/g, ''): scanning from the left,
\* drop a fence with the label json and a following newline, and any other
\* fence with a preceding newline; the first alternative is tried first
RECURSIVE StripFences(_)
StripFences(toks) ==
    IF toks = << >> THEN << >>
    ELSE IF toks[1] = Fence /\ Len(toks) >= 2 /\ toks[2] = JsonLabel
    THEN IF Len(toks) >= 3 /\ toks[3] = Newline
         THEN StripFences(SubSeq(toks, 4, Len(toks)))
         ELSE StripFences(SubSeq(toks, 3, Len(toks)))
    ELSE IF toks[1] = Newline /\ Len(toks) >= 2 /\ toks[2] = Fence
    THEN StripFences(SubSeq(toks, 3, Len(toks)))
    ELSE IF toks[1] = Fence
    THEN StripFences(Tail(toks))
    ELSE <<toks[1]>> \o StripFences(Tail(toks))

\* String.prototype.trim: drop leading and trailing white space
RECURSIVE Trim(_)
Trim(toks) ==
    IF toks = << >> THEN << >>
    ELSE IF toks[1] = Newline THEN Trim(Tail(toks))
    ELSE IF toks[Len(toks)] = Newline THEN Trim(SubSeq(toks, 1, Len(toks) - 1))
    ELSE toks

\* JSON.parse: the text must be the JSON text of exactly one value,
\* otherwise a SyntaxError is thrown
JsonParseThrows(toks) == ~(Len(toks) = 1 /\ toks[1].k = "value")
JsonParse(toks) == toks[1].v

-----------------------------------------------------------------------------
(* parseReviewResponse *)

Threw == [threw |-> TRUE, value |-> Undefined]
Returned(v) == [threw |-> FALSE, value |-> v]
NoOutcome == [threw |-> FALSE, value |-> Undefined]

ReviewResult(reviews, summary) == [reviews |-> reviews, summary |-> summary]

\* the filter callback (client.ts 141-151): it reads review.line, which
\* throws for a null element
FilterThrows(items) == \E k \in 1..Len(items) : PropThrows(items[k])

KeepReview(review) ==
    /\ TypeofNumber(Prop(review, "line"))
    /\ Truthy(Prop(review, "message"))

\* the body of the try block (client.ts 130-158)
ParseTry(resp, filePath) ==
    LET cleaned == Trim(StripFences(resp))
    IN  IF JsonParseThrows(cleaned) THEN Threw
        ELSE LET parsed == JsonParse(cleaned)
             IN  IF PropThrows(parsed) THEN Threw
                 ELSE IF ~Truthy(Prop(parsed, "reviews")) \/ ~IsArray(Prop(parsed, "reviews"))
                 THEN Returned(ReviewResult(<< >>,
                          Or(Prop(parsed, "summary"), JStr("Review completed"))))
                 ELSE IF FilterThrows(Prop(parsed, "reviews").items) THEN Threw
                 ELSE Returned(ReviewResult(
                          SelectSeq(Prop(parsed, "reviews").items, KeepReview),
                          Or(Prop(parsed, "summary"), JStr("Reviewed " \o filePath))))

\* parseReviewResponse without its catch block: the error propagates
parseReviewResponse_NoCatch(resp, filePath) == ParseTry(resp, filePath)

\* try { ... } catch (error) { return { reviews: [], summary: 'Failed ...' } }
parseReviewResponse(resp, filePath) ==
    IF ParseTry(resp, filePath).threw
    THEN Returned(ReviewResult(<< >>, JStr("Failed to parse review response")))
    ELSE ParseTry(resp, filePath)

-----------------------------------------------------------------------------
(* createReviewComments *)

\* patch.split("\n") on a text of characters: the pieces between newlines
\* (a text that ends with a newline gives a last, empty piece)
RECURSIVE SplitFrom(_, _, _)
SplitFrom(text, k, piece) ==
    IF k > Len(text) THEN <<piece>>
    ELSE IF text[k] = "\n" THEN <<piece>> \o SplitFrom(text, k + 1, << >>)
    ELSE SplitFrom(text, k + 1, Append(piece, text[k]))

split(text) == SplitFrom(text, 1, << >>)

\* getSeverityEmoji (client.ts 546-559); the markers stand for the emoji
getSeverityEmoji(severity) ==
    CASE severity = JStr("critical") -> ":red:"
      [] severity = JStr("warning") -> ":yellow:"
      [] severity = JStr("suggestion") -> ":bulb:"
      [] severity = JStr("info") -> ":info:"
      [] OTHER -> ":memo:"

\* String.prototype.toUpperCase on the category texts explored
toUpperCase(str) ==
    CASE str = "bug" -> "BUG"
      [] str = "style" -> "STYLE"
      [] OTHER -> str

\* String(v) for a string or a natural number
ToText(v) == IF v.t = "str" THEN v.s ELSE NumText(v.num)

\* issue.category.toUpperCase() throws when the category is truthy and not
\* a string
CategoryThrows(issue) ==
    Truthy(Prop(issue, "category")) /\ Prop(issue, "category").t # "str"

categoryLabel(issue) ==
    IF Truthy(Prop(issue, "category"))
    THEN "**" \o toUpperCase(Prop(issue, "category").s) \o "**"
    ELSE ""

\* parts.filter(Boolean).join("\n")
RECURSIVE JoinLines(_)
JoinLines(parts) ==
    IF parts = << >> THEN ""
    ELSE IF Len(parts) = 1 THEN parts[1]
    ELSE parts[1] \o "\n" \o JoinLines(Tail(parts))

NonEmptyText(str) == str # ""

\* the comment body with the suggestion rendered as a suggestion block
CommentBody_WithSuggestion(issue) ==
    JoinLines(SelectSeq(
        <<getSeverityEmoji(Prop(issue, "severity")) \o " " \o categoryLabel(issue),
          "",
          ToText(Prop(issue, "message")),
          IF Truthy(Prop(issue, "suggestion"))
          THEN ToText(Prop(issue, "suggestion")) ELSE "">>,
        NonEmptyText))

\* the body of a comment (client.ts 479-493); the suggestion is not used
CommentBody(issue) ==
    JoinLines(SelectSeq(
        <<getSeverityEmoji(Prop(issue, "severity")) \o " " \o categoryLabel(issue),
          "",
          ToText(Prop(issue, "message"))>>,
        NonEmptyText))

ReviewComment(path, line, body) ==
    [path |-> path, line |-> line, body |-> body, side |-> "RIGHT"]

\* the mutant of CommentsFrom: a second issue on a position is merged away
RECURSIVE CommentsFrom_Merging(_, _, _, _, _)
CommentsFrom_Merging(filePath, issues, lines, k, acc) ==
    IF k > Len(issues) THEN Returned(acc)
    ELSE LET lineNumber == mapLineToDiff(Prop(issues[k], "line"), lines)
         IN  IF lineNumber = NULL
                  \/ \E j \in 1..Len(acc) : acc[j].line = lineNumber
             THEN CommentsFrom_Merging(filePath, issues, lines, k + 1, acc)
             ELSE IF CategoryThrows(issues[k]) THEN Threw
             ELSE CommentsFrom_Merging(filePath, issues, lines, k + 1,
                      Append(acc, ReviewComment(filePath, lineNumber,
                                                CommentBody(issues[k]))))

\* the loop over the issues (client.ts 468-501), from issue k on;
\* acc is the comments array so far
RECURSIVE CommentsFrom(_, _, _, _, _)
CommentsFrom(filePath, issues, lines, k, acc) ==
    IF k > Len(issues) THEN Returned(acc)
    ELSE LET lineNumber == mapLineToDiff(Prop(issues[k], "line"), lines)
         IN  IF lineNumber = NULL
             THEN CommentsFrom(filePath, issues, lines, k + 1, acc)
             ELSE IF CategoryThrows(issues[k]) THEN Threw
             ELSE CommentsFrom(filePath, issues, lines, k + 1,
                      Append(acc, ReviewComment(filePath, lineNumber,
                                                CommentBody(issues[k]))))

createReviewComments(filePath, issues, patch) ==
    CommentsFrom(filePath, issues, split(patch), 1, << >>)

-----------------------------------------------------------------------------
(* reviewCode, reviewFile, generateSummary, formatReviewBody *)

\* what the retried engine call behind reviewCode and generateSummary ends
\* with (client.ts 45-62, 208-222): an error, a completion without content,
\* or a completion with a text
EngineError == [k |-> "error"]
EngineEmpty == [k |-> "empty"]
EngineText(content) == [k |-> "text", content |-> content]

reviewCode(filePath, outcome) ==
    IF outcome.k = "error" THEN Threw
    ELSE IF outcome.k = "empty"
    THEN Returned(ReviewResult(<< >>, JStr("No review generated")))
    ELSE parseReviewResponse(outcome.content, filePath)

\* a PullRequestFile; the patch is Undefined or a text of characters
PatchText(chars) == [t |-> "text", chars |-> chars]
PullRequestFile(filename, status, patch) ==
    [filename |-> filename, status |-> status, patch |-> patch]

\* !file.patch is false for a non-empty text only
HasPatch(file) == file.patch.t = "text" /\ file.patch.chars # << >>
\* file.patch || ""
PatchOrEmpty(file) == IF HasPatch(file) THEN file.patch.chars ELSE << >>

\* result.reviews.filter(r => r.severity === ...).length
CountSeverity(reviews, names) ==
    Len(SelectSeq(reviews, LAMBDA r : Prop(r, "severity") \in names))

reviewFile(file, outcome) ==
    LET result == reviewCode(file.filename, outcome)
    IN  IF result.threw THEN Threw
        ELSE LET comments == createReviewComments(file.filename,
                                 result.value.reviews, PatchOrEmpty(file))
             IN  IF comments.threw THEN Threw
                 ELSE Returned(
                     [comments |-> comments.value,
                      summary |-> result.value.summary,
                      criticalCount |->
                          CountSeverity(result.value.reviews, {JStr("critical")}),
                      warningCount |->
                          CountSeverity(result.value.reviews, {JStr("warning")}),
                      suggestionCount |->
                          CountSeverity(result.value.reviews,
                                        {JStr("suggestion"), JStr("info")})])

\* the entry pushed on fileResults (client.ts 318-325)
FileResult(file, res) ==
    [filePath |-> file.filename,
     summary |-> res.summary,
     issueCount |-> Len(res.comments),
     criticalCount |-> res.criticalCount,
     warningCount |-> res.warningCount,
     suggestionCount |-> res.suggestionCount]

SummaryText == "Overall fine"

\* the mutant of generateSummary: one fallback text for both failures
generateSummary_OneFallback(fileReviews, outcome) ==
    IF outcome.k \in {"error", "empty"} THEN "Review completed"
    ELSE outcome.content

generateSummary(fileReviews, outcome) ==
    IF outcome.k = "error"
    THEN "Reviewed " \o NumText(Len(fileReviews)) \o " file(s)"
    ELSE IF outcome.k = "empty" THEN "Review completed"
    ELSE outcome.content

\* fileResults.map(r => ({filePath, summary, issueCount}))
SummaryInput(results) ==
    [k \in 1..Len(results) |->
        [filePath |-> results[k].filePath,
         summary |-> results[k].summary,
         issueCount |-> results[k].issueCount]]

\* parts.join(sep)
RECURSIVE JoinWith(_, _)
JoinWith(parts, sep) ==
    IF parts = << >> THEN ""
    ELSE IF Len(parts) = 1 THEN parts[1]
    ELSE parts[1] \o sep \o JoinWith(Tail(parts), sep)

\* fileResults.reduce((sum, r) => sum + r.<field>, 0)
RECURSIVE SumOf(_, _)
SumOf(results, field) ==
    IF results = << >> THEN 0
    ELSE results[1][field] + SumOf(Tail(results), field)

FileLine(r) ==
    "- " \o r.filePath \o
      (IF r.issueCount > 0
       THEN " (" \o NumText(r.issueCount) \o " comment"
              \o (IF r.issueCount > 1 THEN "s" ELSE "") \o ")"
       ELSE "")

formatReviewBody(summary, results, criticalIssues, warnings, suggestions) ==
    LET stats == SelectSeq(
            <<IF criticalIssues > 0
              THEN ":red: " \o NumText(criticalIssues) \o " critical" ELSE "",
              IF warnings > 0
              THEN ":yellow: " \o NumText(warnings) \o " warnings" ELSE "",
              IF suggestions > 0
              THEN ":bulb: " \o NumText(suggestions) \o " suggestions" ELSE "">>,
            NonEmptyText)
    IN  "## Open Review\n\n" \o summary \o "\n\n### Summary\n"
          \o (IF Len(stats) > 0 THEN JoinWith(stats, " | ")
                                ELSE ":check: No issues found")
          \o "\n\n### Files Reviewed\n"
          \o JoinWith([k \in 1..Len(results) |-> FileLine(results[k])], "\n")
          \o "\n\n---\n*This review was generated by AI. Please review the suggestions carefully before applying them.*"

approvalBody(summary) ==
    "## :check: AI Code Review Complete\n\n" \o summary
      \o "\n\n**No issues found!** Great job!"

-----------------------------------------------------------------------------
(* runReview *)

EmptyReport ==
    [totalFiles |-> 0, filesReviewed |-> 0, totalComments |-> 0,
     criticalIssues |-> 0, warnings |-> 0, suggestions |-> 0,
     summary |-> "No files to review"]

\* the mutant of IsEmptyRun: the early return is never taken
IsEmptyRun_Never(fs) == FALSE

\* files.length === 0 (client.ts 269)
IsEmptyRun(fs) == Len(fs) = 0

\* the mutant of LimitFiles: the limit is ignored
LimitFiles_NoLimit(fs, limit) == fs

\* maxFiles > 0 ? files.slice(0, maxFiles) : files
LimitFiles(fs, limit) ==
    IF limit > 0 THEN SubSeq(fs, 1, IF limit < Len(fs) THEN limit ELSE Len(fs))
    ELSE fs

\* the mutant of SkipFile: only removed files are skipped
SkipFile_RemovedOnly(file) == file.status = "removed"

\* file.status === "removed" || !file.patch
SkipFile(file) == file.status = "removed" \/ ~HasPatch(file)

\* the mutant of NextReviewed: only one skipped file is passed over
NextReviewed_SkipsOne(list, k) ==
    IF k > Len(list) \/ ~SkipFile(list[k]) THEN k ELSE k + 1

\* the position of the first file from k on that is not skipped
\* (Len(list) + 1 when there is none)
RECURSIVE NextReviewed(_, _)
NextReviewed(list, k) ==
    IF k > Len(list) \/ ~SkipFile(list[k]) THEN k
    ELSE NextReviewed(list, k + 1)

\* the for..of loop from position k up to its next await: the call of
\* reviewCode for the next file that is not skipped, or past the loop the
\* call of generateSummary
\* A call to the engine is logged with the position of its file, and on its
\* return with what the engine ended with and whether the awaited call threw.
LoopFrom(list, k, results) ==
    LET n == NextReviewed(list, k)
    IN  IF n <= Len(list)
        THEN [pc |-> "reviewCode", fileIdx |-> n,
              call |-> [op |-> "reviewCode", file |-> list[n].filename,
                        position |-> n, engine |-> "pending", threw |-> FALSE,
                        reviews |-> << >>]]
        ELSE [pc |-> "generateSummary", fileIdx |-> n,
              call |-> [op |-> "generateSummary",
                        fileReviews |-> SummaryInput(results),
                        engine |-> "pending", threw |-> FALSE]]

\* result.reviews of the reviewCode call (client.ts 419-431), none if it threw
ValidatedIssues(file, outcome) ==
    LET result == reviewCode(file.filename, outcome)
    IN  IF result.threw THEN << >> ELSE result.value.reviews

\* the log with the validated issues that the reviewCode call returned
Reviewed(log, reviews) == [log EXCEPT ![Len(log)].reviews = reviews]

\* the log once the awaited engine call has returned or thrown
Settled(log, outcome, threw) ==
    [log EXCEPT ![Len(log)] = [@ EXCEPT !.engine = outcome.k, !.threw = threw]]

\* the body posted with the comments (client.ts 356-362)
ReviewBody(summary, results) ==
    formatReviewBody(summary, results,
                     SumOf(results, "criticalCount"),
                     SumOf(results, "warningCount"),
                     SumOf(results, "suggestionCount"))

\* the ReviewSummary returned at the end (client.ts 393-401)
FinalReport(fs, comments, results, summary) ==
    [totalFiles |-> Len(fs),
     filesReviewed |-> Len(results),
     totalComments |-> Len(comments),
     criticalIssues |-> SumOf(results, "criticalCount"),
     warnings |-> SumOf(results, "warningCount"),
     suggestions |-> SumOf(results, "suggestionCount"),
     summary |-> summary]

\* the first posting call (client.ts 355-383)
FirstPost(comments, results, summary, asReview) ==
    IF Len(comments) > 0
    THEN IF asReview
         THEN [op |-> "createReview", comments |-> comments,
               body |-> ReviewBody(summary, results), event |-> "COMMENT",
               threw |-> FALSE]
         ELSE [op |-> "postReviewComments", comments |-> comments,
               threw |-> FALSE]
    ELSE IF asReview
         THEN [op |-> "createReview", comments |-> << >>,
               body |-> approvalBody(summary), event |-> "APPROVE",
               threw |-> FALSE]
         ELSE [op |-> "postGeneralComment", body |-> approvalBody(summary),
               threw |-> FALSE]

-----------------------------------------------------------------------------
(* Diff lines explored *)

\* "@@ -<oldStart>,<oldCount> +<newStart>,<newCount> @@"
HunkHeader(oldStart, oldCount, newStart, newCount) ==
    <<"@", "@", " ", "-">> \o Digits(oldStart) \o <<",">> \o Digits(oldCount)
      \o <<" ", "+">> \o Digits(newStart) \o <<",">> \o Digits(newCount)
      \o <<" ", "@", "@">>

\* "@@ -<oldStart> +<newStart> @@" (counts of 1 are omitted by diff tools)
HunkHeaderShort(oldStart, newStart) ==
    <<"@", "@", " ", "-">> \o Digits(oldStart) \o <<" ", "+">>
      \o Digits(newStart) \o <<" ", "@", "@">>

ContextLine == <<" ", "a">>
AddedLine == <<"+", "b">>
RemovedLine == <<"-", "c">>
NoNewlineMarker == <<"\\", " ", "N", "o">>      \* "\ No newline at end of file"

DiffLine ==
    { HunkHeaderShort(1, 1), HunkHeader(2, 1, 3, 2), HunkHeader(1, 2, 0, 0),
      ContextLine, AddedLine, RemovedLine, NoNewlineMarker }

SeqsUpTo(S, n) == UNION { [1..k -> S] : k \in 0..n }

Target == { JsInt(n) : n \in (0 - MaxBelowZero)..MaxTarget } \cup { JsHalf(3) }

-----------------------------------------------------------------------------
(* The components that a specification does not exercise stay idle *)

MapIdle ==
    /\ patchLines = << >>
    /\ targetLine = JsInt(0)
    /\ i = 0
    /\ currentLine = 0
    /\ inHunk = FALSE
    /\ mapResult = NULL
    /\ mapPc = "idle"

ParseIdle ==
    /\ response = << >>
    /\ parseOut = NoOutcome
    /\ parsePc = "idle"

CommentsIdle ==
    /\ cmIssues = << >>
    /\ cmPatch = << >>
    /\ cmOut = NoOutcome
    /\ cmPc = "idle"

NoReport == [none |-> TRUE]

NoRetryOutcome == [ok |-> FALSE, v |-> "none"]

RetryIdle ==
    /\ maxAttempts = 0
    /\ attempt = 0
    /\ inFlight = 0
    /\ outcomes = << >>
    /\ waits = << >>
    /\ retryOut = NoRetryOutcome
    /\ retryPc = "idle"

RunIdle ==
    /\ maxFiles = 0
    /\ postAsReview = TRUE
    /\ pc = "idle"
    /\ files = << >>
    /\ filesToReview = << >>
    /\ fileIdx = 0
    /\ allComments = << >>
    /\ fileResults = << >>
    /\ overallSummary = ""
    /\ report = NoReport
    /\ calls = << >>

-----------------------------------------------------------------------------
(* SpecMap: mapLineToDiff run on every bounded input *)

MapInit ==
    /\ patchLines \in SeqsUpTo(DiffLine, MaxPatchLen)
    /\ targetLine \in Target
    /\ i = 0
    /\ currentLine = 0
    /\ inHunk = FALSE
    /\ mapResult = NULL
    /\ mapPc = "loop"
    /\ ParseIdle
    /\ CommentsIdle
    /\ RunIdle
    /\ RetryIdle

\* one iteration of `for (let i = 0; i < patchLines.length; i++)`
MapLoop ==
    /\ mapPc = "loop"
    /\ i < Len(patchLines)
    /\ LET st == MapStep([currentLine |-> currentLine, inHunk |-> inHunk,
                          result |-> NULL], patchLines[i + 1], i, targetLine)
       IN  /\ currentLine' = st.currentLine
           /\ inHunk' = st.inHunk
           /\ mapResult' = st.result
           /\ IF st.result # NULL
              THEN mapPc' = "done" /\ i' = i
              ELSE mapPc' = "loop" /\ i' = i + 1
    /\ UNCHANGED <<patchLines, targetLine, parseVars, cmVars, runVars, retryVars>>

\* loop exit: `return null`
MapReturnNull ==
    /\ mapPc = "loop"
    /\ i >= Len(patchLines)
    /\ mapResult' = NULL
    /\ mapPc' = "done"
    /\ UNCHANGED <<patchLines, targetLine, i, currentLine, inHunk, parseVars, cmVars, runVars, retryVars>>

MapNext == MapLoop \/ MapReturnNull

SpecMap == MapInit /\ [][MapNext]_vars

-----------------------------------------------------------------------------
(* The unified diff format, stated on the text alone (reference for the     *)
(* claims about mapLineToDiff; none of this is computed by the program)    *)

IsHeaderLine(line) == HunkMatchAt(line, 1) # << >>
IsAddedLine(line) == startsWith(line, "+")
IsRemovedLine(line) == startsWith(line, "-")
IsContextLine(line) == startsWith(line, " ")
IsMarkerLine(line) == startsWith(line, "\\")
NewStartOf(line) == parseInt(HunkMatchAt(line, 1))

Max(S) == CHOOSE m \in S : \A x \in S : x <= m

\* index of the hunk header that governs line k (0 when there is none)
HeaderOf(lines, k) ==
    LET hs == { j \in 1..k : IsHeaderLine(lines[j]) }
    IN  IF hs = {} THEN 0 ELSE Max(hs)

\* the new-file line number carried by line k: defined for context and added
\* lines inside a hunk, 0 otherwise (new-file numbers of a valid diff are >= 1)
NewFileNo(lines, k) ==
    LET h == HeaderOf(lines, k)
    IN  IF h = 0 \/ h = k \/ ~(IsAddedLine(lines[k]) \/ IsContextLine(lines[k]))
        THEN 0
        ELSE NewStartOf(lines[h]) - 1
               + Cardinality({ j \in (h + 1)..k :
                                 IsAddedLine(lines[j]) \/ IsContextLine(lines[j]) })

\* last index of the hunk whose header is at h
HunkEnd(lines, h) ==
    LET later == { j \in (h + 1)..Len(lines) : IsHeaderLine(lines[j]) }
    IN  IF later = {} THEN Len(lines)
        ELSE (CHOOSE m \in later : \A x \in later : m <= x) - 1

\* last new-file line number of the hunk whose header is at h
\* (NewStart - 1 for a hunk without context or added lines)
HunkLastNew(lines, h) ==
    NewStartOf(lines[h]) - 1
      + Cardinality({ j \in (h + 1)..HunkEnd(lines, h) :
                        IsAddedLine(lines[j]) \/ IsContextLine(lines[j]) })

Headers(lines) == { j \in 1..Len(lines) : IsHeaderLine(lines[j]) }

\* "\ No newline at end of file" follows the last line of the old file (then
\* only added lines can follow) or the last line of the new file (then it
\* ends the diff)
MarkerPlaced(lines, k) ==
    /\ k > 1
    /\ \/ /\ IsRemovedLine(lines[k - 1])
          /\ \A j \in (k + 1)..Len(lines) :
                IsAddedLine(lines[j]) \/ IsMarkerLine(lines[j])
       \/ /\ IsAddedLine(lines[k - 1]) \/ IsContextLine(lines[k - 1])
          /\ k = Len(lines)

\* a valid unified diff of one file: it starts with a hunk header, every
\* other line is a context, added, removed or marker line, new-file starts
\* are >= 1 and the hunks are in increasing, non-overlapping order
ValidDiff(lines) ==
    /\ Len(lines) >= 1
    /\ IsHeaderLine(lines[1])
    /\ \A k \in 1..Len(lines) :
          \/ IsHeaderLine(lines[k]) /\ NewStartOf(lines[k]) >= 1
          \/ IsAddedLine(lines[k])
          \/ IsRemovedLine(lines[k])
          \/ IsContextLine(lines[k])
          \/ IsMarkerLine(lines[k]) /\ MarkerPlaced(lines, k)
    /\ \A h \in Headers(lines) : HunkEnd(lines, h) > h
    /\ \A h1, h2 \in Headers(lines) :
          h1 < h2 => NewStartOf(lines[h2]) > HunkLastNew(lines, h1)

\* the target is a new-file line number lying in the range of some hunk
Covered(lines, n) ==
    \E h \in Headers(lines) : NewStartOf(lines[h]) <= n /\ n <= HunkLastNew(lines, h)

MapDone == mapPc = "done"

-----------------------------------------------------------------------------
(* Claims about mapLineToDiff (SpecMap) *)

\* C1: for every valid unified diff and every new-file line number present in
\* it as a context line or as an added line, mapLineToDiff returns the 1-based
\* index of the raw diff line that carries this new-file line.
C1_PresentLineIsMapped ==
    (MapDone /\ ValidDiff(patchLines)) =>
        \A k \in 1..Len(patchLines) :
            (NewFileNo(patchLines, k) # 0
               /\ StrictEqInt(NewFileNo(patchLines, k), targetLine))
            => mapResult = k

\* The place of line k in the new file, classifying lines by their prefix
\* only (a line found to hold the header pattern is a header, a '-' line is
\* removed, every other line counts): the number a counted line carries, and
\* for a removed line the number of the place where it was removed.
PatternHeaderOf(lines, k) ==
    LET hs == { j \in 1..k : hunkMatch(lines[j]) # << >> }
    IN  IF hs = {} THEN 0 ELSE Max(hs)

Slot(lines, k) ==
    LET h == PatternHeaderOf(lines, k)
        counted == Cardinality({ j \in (h + 1)..(k - 1) : ~IsRemovedLine(lines[j]) })
    IN  parseInt(hunkMatch(lines[h])) + counted

IsCandidate(lines, k, n) ==
    /\ PatternHeaderOf(lines, k) \notin {0, k}
    /\ StrictEqInt(Slot(lines, k), n)

OnlyRemovedCandidates(lines, n) ==
    /\ \E k \in 1..Len(lines) : IsCandidate(lines, k, n)
    /\ \A k \in 1..Len(lines) : IsCandidate(lines, k, n) => IsRemovedLine(lines[k])

\* C2: for every diff text and target, the returned position is never the
\* index of a removed ('-') line, and a target whose only candidate raw lines
\* are removed lines yields null.
C2_RemovedLineNeverMatched ==
    MapDone =>
        /\ mapResult # NULL => ~IsRemovedLine(patchLines[mapResult])
        /\ OnlyRemovedCandidates(patchLines, targetLine) => mapResult = NULL

\* a finished scan of a diff in which the target's place is held by removed
\* lines only
C2_Witness ==
    /\ MapDone
    /\ inHunk
    /\ OnlyRemovedCandidates(patchLines, targetLine)
    /\ mapResult = NULL

\* C3: mapLineToDiff returns null whenever the target is not covered by any
\* hunk: no hunk header in the text, target before the first newStart, in a
\* gap between two hunks, or after the last new-file line of the last hunk.
C3_UncoveredTargetIsNull ==
    ( /\ MapDone
      /\ targetLine.den = 1
      /\ \/ \A k \in 1..Len(patchLines) : hunkMatch(patchLines[k]) = << >>
         \/ ValidDiff(patchLines)
      /\ ~Covered(patchLines, targetLine.num) )
    => mapResult = NULL

\* C4: for every diff text, also one with a header whose newStart is 0, and
\* every target line below 1, mapLineToDiff returns null.
C4_TargetBelowOneIsNull ==
    (MapDone /\ targetLine.den = 1 /\ targetLine.num < 1) => mapResult = NULL

-----------------------------------------------------------------------------
(* Engine output explored *)

\* an element of the reviews array with the five properties of a ReviewIssue
Issue(line, message, severity, category, suggestion) ==
    JObj([line |-> line, message |-> message, severity |-> severity,
          category |-> category, suggestion |-> suggestion])

LineValue == { Undefined, JNum(1, 1), JNum(3, 2), JStr("x") }   \* 1, 1.5, "x"
MessageValue == { Undefined, JStr(""), JStr("m") }
SeverityValue == { Undefined, JStr("critical"), JStr("blocker") }
CategoryValue == { Undefined, JStr("bug") }
SuggestionValue == { Undefined, JStr("fix") }

Candidate ==
    { Issue(l, m, Undefined, Undefined, Undefined) :
        l \in LineValue, m \in MessageValue }
    \cup { Issue(JNum(1, 1), JStr("m"), sv, c, sg) :
             sv \in SeverityValue, c \in CategoryValue, sg \in SuggestionValue }
    \cup { JNull, JNum(5, 1) }

TopObject(reviews, summary) == JObj([reviews |-> reviews, summary |-> summary])

TopValue ==
    { JNull, JNum(5, 1), JStr("hi"), JArr(<< >>) }
    \cup { TopObject(rv, sm) :
             rv \in { Undefined, JStr("none") }
                      \cup { JArr(items) : items \in SeqsUpTo(Candidate, MaxReviews) },
             sm \in { Undefined, JStr("s") } }

Payload == { Prose } \cup { JsonText(v) : v \in TopValue }

\* the payload alone, inside a json fence, inside a json fence after a
\* leading newline, and after a line of prose
Wrapping == {"bare", "fenced", "newline-fenced", "after-prose"}

Wrap(w, p) ==
    CASE w = "bare" -> <<p>>
      [] w = "fenced" -> <<Fence, JsonLabel, Newline, p, Newline, Fence>>
      [] w = "newline-fenced" ->
            <<Newline, Fence, JsonLabel, Newline, p, Newline, Fence>>
      [] w = "after-prose" -> <<Prose, Newline, p>>

Response == { Wrap(w, p) : w \in Wrapping, p \in Payload }

SomeFile == "a.ts"

-----------------------------------------------------------------------------
(* SpecParse: parseReviewResponse run on every bounded engine output *)

ParseInit ==
    /\ response \in Response
    /\ parseOut = NoOutcome
    /\ parsePc = "call"
    /\ MapIdle
    /\ CommentsIdle
    /\ RunIdle
    /\ RetryIdle

ParseReviewResponse ==
    /\ parsePc = "call"
    /\ parseOut' = parseReviewResponse(response, SomeFile)
    /\ parsePc' = "done"
    /\ UNCHANGED <<response, mapVars, cmVars, runVars, retryVars>>

ParseNext == ParseReviewResponse

SpecParse == ParseInit /\ [][ParseNext]_vars

-----------------------------------------------------------------------------
(* Claims about parseReviewResponse (SpecParse) *)

ParseDone == parsePc = "done"

DecodeFails == JsonParseThrows(Trim(StripFences(response)))
Decoded == JsonParse(Trim(StripFences(response)))
HasReviewsArray ==
    ~DecodeFails /\ Decoded.t = "obj" /\ Decoded.f["reviews"].t = "arr"
DecodedReviews == Decoded.f["reviews"].items

\* C5: parseReviewResponse never throws, and for a text that cannot be
\* decoded or that decodes to a non-object (null, a number, a string, an
\* array) it returns an empty issue list with a non-empty fallback summary.
C5_ParseNeverThrows ==
    ParseDone =>
        /\ ~parseOut.threw
        /\ (DecodeFails \/ Decoded.t # "obj") =>
              /\ parseOut.value.reviews = << >>
              /\ parseOut.value.summary.t = "str"
              /\ parseOut.value.summary.s # ""

\* the call has returned for a text that is not JSON
C5_Witness ==
    /\ ParseDone
    /\ DecodeFails
    /\ ~parseOut.threw
    /\ parseOut.value.reviews = << >>

IsIntegerLine(c) == Prop(c, "line").t = "num" /\ Prop(c, "line").den = 1
HasMessage(c) == Prop(c, "message").t = "str" /\ Prop(c, "message").s # ""
ValidCandidate(c) == c.t = "obj" /\ IsIntegerLine(c) /\ HasMessage(c)

\* C6: every issue returned by parseReviewResponse has an integer line and a
\* non-empty message.
C6_ReturnedIssuesAreValid ==
    ParseDone =>
        \A k \in 1..Len(parseOut.value.reviews) :
            /\ IsIntegerLine(parseOut.value.reviews[k])
            /\ HasMessage(parseOut.value.reviews[k])

\* C7: every candidate of the decoded array with an integer line and a
\* non-empty message is in the result, in the original order, whatever the
\* other elements of the array are.
C7_ValidCandidatesAreKept ==
    (ParseDone /\ HasReviewsArray) =>
        SelectSeq(parseOut.value.reviews, ValidCandidate)
          = SelectSeq(DecodedReviews, ValidCandidate)

SeverityName == { JStr("critical"), JStr("warning"), JStr("suggestion"), JStr("info") }

\* C8: for every retained candidate, category and suggestion are passed
\* through unmodified, severity is passed through when present and is "info"
\* when absent, so every returned issue has one of the four severities.
C8_SeverityDefaultsToInfo ==
    (ParseDone /\ HasReviewsArray) =>
        LET kept == SelectSeq(DecodedReviews, KeepReview)
            out == parseOut.value.reviews
        IN  \A k \in 1..Len(out) :
                /\ Prop(out[k], "category") = Prop(kept[k], "category")
                /\ Prop(out[k], "suggestion") = Prop(kept[k], "suggestion")
                /\ Prop(kept[k], "severity") # Undefined
                      => Prop(out[k], "severity") = Prop(kept[k], "severity")
                /\ Prop(kept[k], "severity") = Undefined
                      => Prop(out[k], "severity") = JStr("info")
                /\ Prop(out[k], "severity") \in SeverityName

-----------------------------------------------------------------------------
(* Patches and validated issues explored *)

\* lines.join("\n")
RECURSIVE JoinText(_)
JoinText(lines) ==
    IF lines = << >> THEN << >>
    ELSE IF Len(lines) = 1 THEN lines[1]
    ELSE lines[1] \o <<"\n">> \o JoinText(Tail(lines))

Patch ==
    { JoinText(<<HunkHeaderShort(1, 1), AddedLine>>),
      JoinText(<<HunkHeader(1, 1, 1, 2), ContextLine, AddedLine>>),
      JoinText(<<HunkHeader(1, 1, 1, 2), RemovedLine, AddedLine, AddedLine>>),
      JoinText(<<HunkHeaderShort(1, 1), RemovedLine, NoNewlineMarker, AddedLine>>),
      JoinText(<<HunkHeaderShort(1, 1), AddedLine, << >>>>) }

\* issues as parseReviewResponse returns them: a number for line and a
\* truthy message
IssueLine == { JNum(1, 1), JNum(2, 1), JNum(3, 2) }      \* 1, 2, 1.5
IssueCategory == { JStr("bug"), JNum(7, 1) }
IssueSeverity == { Undefined, JStr("critical") }

ValidatedIssue ==
    { Issue(l, JStr("m"), sv, Undefined, sg) :
        l \in IssueLine, sv \in IssueSeverity, sg \in SuggestionValue }
    \cup { Issue(JNum(1, 1), JStr("m"), Undefined, c, sg) :
             c \in IssueCategory, sg \in SuggestionValue }

-----------------------------------------------------------------------------
(* SpecComments: createReviewComments run on every bounded input *)

CommentsInit ==
    /\ cmIssues \in SeqsUpTo(ValidatedIssue, MaxIssues)
    /\ cmPatch \in Patch
    /\ cmOut = NoOutcome
    /\ cmPc = "call"
    /\ MapIdle
    /\ ParseIdle
    /\ RunIdle
    /\ RetryIdle

CreateReviewComments ==
    /\ cmPc = "call"
    /\ cmOut' = createReviewComments(SomeFile, cmIssues, cmPatch)
    /\ cmPc' = "done"
    /\ UNCHANGED <<cmIssues, cmPatch, mapVars, parseVars, runVars, retryVars>>

CommentsNext == CreateReviewComments

SpecComments == CommentsInit /\ [][CommentsNext]_vars

-----------------------------------------------------------------------------
(* Claims about createReviewComments (SpecComments) *)

CommentsDone == cmPc = "done"

\* issue lists that differ from issues in their suggestion values only
WithSuggestion(issue, sg) == [issue EXCEPT !.f["suggestion"] = sg]

SuggestionVariants(issues) ==
    { [k \in 1..Len(issues) |-> WithSuggestion(issues[k], sgs[k])] :
        sgs \in [1..Len(issues) -> {Undefined, JStr("other fix")}] }

SameOutcome(a, b) ==
    /\ a.threw = b.threw
    /\ ~a.threw => a.value = b.value

\* C9: a run of createReviewComments on an issue list that differs from the
\* given one in its suggestion values only produces the same comment list
\* (same path, line, body and side).
C9_BodyIndependentOfSuggestion ==
    CommentsDone =>
        \A other \in SuggestionVariants(cmIssues) :
            SameOutcome(createReviewComments(SomeFile, other, cmPatch), cmOut)

\* a comment has been built from an issue that carries a suggestion
C9_Witness ==
    /\ CommentsDone
    /\ ~cmOut.threw
    /\ Len(cmOut.value) >= 1
    /\ \E k \in 1..Len(cmIssues) :
          /\ Prop(cmIssues[k], "suggestion") = JStr("fix")
          /\ mapLineToDiff(Prop(cmIssues[k], "line"), split(cmPatch)) # NULL

-----------------------------------------------------------------------------
(* Changed files and engine outcomes explored *)

ChangedFile ==
    { PullRequestFile("a.ts", "modified",
          PatchText(JoinText(<<HunkHeaderShort(1, 1), AddedLine>>))),
      PullRequestFile("b.ts", "added",
          PatchText(JoinText(<<HunkHeader(1, 1, 1, 2), ContextLine, AddedLine>>))),
      PullRequestFile("gone.ts", "removed",
          PatchText(JoinText(<<HunkHeaderShort(1, 1), RemovedLine>>))),
      PullRequestFile("logo.png", "modified", Undefined),
      PullRequestFile("empty.ts", "renamed", PatchText(<< >>)) }

JsonReply(reviews) == EngineText(<<JsonText(TopObject(JArr(reviews), Undefined))>>)

ReviewOutcome ==
    { EngineError,
      EngineEmpty,
      \* one critical issue on new-file line 1, with a suggestion
      JsonReply(<<Issue(JNum(1, 1), JStr("m"), JStr("critical"), Undefined, JStr("fix"))>>),
      \* one warning on new-file line 2, an added line of b.ts and no line of
      \* the diff of a.ts
      JsonReply(<<Issue(JNum(2, 1), JStr("m"), JStr("warning"), Undefined, Undefined)>>),
      \* an issue whose category is a number
      JsonReply(<<Issue(JNum(1, 1), JStr("m"), Undefined, JNum(7, 1), Undefined)>>),
      \* two issues on the same line, one without severity
      JsonReply(<<Issue(JNum(1, 1), JStr("m"), JStr("suggestion"), JStr("bug"), Undefined),
                  Issue(JNum(1, 1), JStr("m"), Undefined, Undefined, Undefined)>>) }

SummaryOutcome == { EngineError, EngineEmpty, EngineText(SummaryText) }

MaxFilesValue == 0..MaxFetched

-----------------------------------------------------------------------------
(* Spec: one run of runReview.  An action is one resumption of the async   *)
(* function: the awaited call returns (or throws) and the code runs on to  *)
(* the next await; pc names the call that is awaited.                      *)

Init ==
    /\ maxFiles \in MaxFilesValue
    /\ postAsReview \in BOOLEAN
    /\ pc = "getPRDetails"
    /\ files = << >>
    /\ filesToReview = << >>
    /\ fileIdx = 0
    /\ allComments = << >>
    /\ fileResults = << >>
    /\ overallSummary = ""
    /\ report = NoReport
    /\ calls = <<[op |-> "getPRDetails", threw |-> FALSE]>>
    /\ MapIdle
    /\ ParseIdle
    /\ CommentsIdle
    /\ RetryIdle

\* the log once the awaited call has thrown
Thrown(log) == [log EXCEPT ![Len(log)].threw = TRUE]

\* the mutant of Abort: the error is swallowed and a report is returned
Abort_Swallowed ==
    /\ pc' = "done"
    /\ calls' = Thrown(calls)
    /\ report' = FinalReport(files, allComments, fileResults, overallSummary)
    /\ UNCHANGED <<files, filesToReview, fileIdx, allComments, fileResults,
                   overallSummary>>

\* the awaited call throws outside any try block: the run rejects with
\* that error
Abort ==
    /\ pc' = "aborted"
    /\ calls' = Thrown(calls)
    /\ UNCHANGED <<files, filesToReview, fileIdx, allComments, fileResults,
                   overallSummary, report>>

\* await this.github.getPRDetails() (client.ts 261-267)
PRDetailsReturn ==
    /\ pc = "getPRDetails"
    /\ \E ok \in BOOLEAN :
          IF ok
          THEN /\ pc' = "getChangedFiles"
               /\ calls' = Append(calls, [op |-> "getChangedFiles", threw |-> FALSE])
               /\ UNCHANGED <<files, filesToReview, fileIdx, allComments,
                              fileResults, overallSummary, report>>
          ELSE Abort
    /\ UNCHANGED <<maxFiles, postAsReview, mapVars, parseVars, cmVars, retryVars>>

\* await this.github.getChangedFiles(...) (client.ts 265-308)
ChangedFilesReturn ==
    /\ pc = "getChangedFiles"
    /\ \/ Abort
       \/ \E fs \in SeqsUpTo(ChangedFile, MaxFetched) :
            /\ files' = fs
            /\ IF IsEmptyRun(fs)
               THEN /\ report' = EmptyReport
                    /\ pc' = "done"
                    /\ UNCHANGED <<filesToReview, fileIdx, calls>>
               ELSE LET list == LimitFiles(fs, maxFiles)
                        next == LoopFrom(list, 1, << >>)
                    IN  /\ filesToReview' = list
                        /\ fileIdx' = next.fileIdx
                        /\ pc' = next.pc
                        /\ calls' = Append(calls, next.call)
                        /\ UNCHANGED report
            /\ UNCHANGED <<allComments, fileResults, overallSummary>>
    /\ UNCHANGED <<maxFiles, postAsReview, mapVars, parseVars, cmVars, retryVars>>

\* the mutant of ReviewFileReturn: no catch around the review of a file
ReviewFileReturn_NoCatch ==
    /\ pc = "reviewCode"
    /\ \E outcome \in ReviewOutcome :
          LET file == filesToReview[fileIdx]
              result == reviewFile(file, outcome)
              results == Append(fileResults, FileResult(file, result.value))
              next == LoopFrom(filesToReview, fileIdx + 1, results)
          IN  IF result.threw
              THEN /\ pc' = "aborted"
                   /\ calls' = Reviewed(Settled(calls, outcome, TRUE),
                                         ValidatedIssues(file, outcome))
                   /\ UNCHANGED <<allComments, fileResults, fileIdx>>
              ELSE /\ allComments' = allComments \o result.value.comments
                   /\ fileResults' = results
                   /\ fileIdx' = next.fileIdx
                   /\ pc' = next.pc
                   /\ calls' = Append(Reviewed(Settled(calls, outcome, FALSE),
                                                ValidatedIssues(file, outcome)),
                                       next.call)
    /\ UNCHANGED <<maxFiles, postAsReview, files, filesToReview, overallSummary,
                   report, mapVars, parseVars, cmVars, retryVars>>

\* await this.reviewFile(file, ...) inside try/catch (client.ts 310-330)
ReviewFileReturn ==
    /\ pc = "reviewCode"
    /\ \E outcome \in ReviewOutcome :
          LET file == filesToReview[fileIdx]
              result == reviewFile(file, outcome)
              comments == IF result.threw THEN allComments
                          ELSE allComments \o result.value.comments
              results == IF result.threw THEN fileResults
                         ELSE Append(fileResults, FileResult(file, result.value))
              next == LoopFrom(filesToReview, fileIdx + 1, results)
          IN  /\ allComments' = comments
              /\ fileResults' = results
              /\ fileIdx' = next.fileIdx
              /\ pc' = next.pc
              /\ calls' = Append(Reviewed(Settled(calls, outcome, result.threw),
                                           ValidatedIssues(file, outcome)),
                                  next.call)
    /\ UNCHANGED <<maxFiles, postAsReview, files, filesToReview, overallSummary,
                   report, mapVars, parseVars, cmVars, retryVars>>

\* await this.llm.generateSummary(...), then the first posting call
\* (client.ts 333-383)
GenerateSummaryReturn ==
    /\ pc = "generateSummary"
    /\ \E outcome \in SummaryOutcome :
          LET summary == generateSummary(SummaryInput(fileResults), outcome)
              post == FirstPost(allComments, fileResults, summary, postAsReview)
          IN  /\ overallSummary' = summary
              /\ pc' = post.op
              /\ calls' = Append(Settled(calls, outcome, FALSE), post)
    /\ UNCHANGED <<maxFiles, postAsReview, files, filesToReview, fileIdx,
                   allComments, fileResults, report, mapVars, parseVars, cmVars, retryVars>>

\* the return statement (client.ts 385-401)
Return ==
    /\ pc' = "done"
    /\ report' = FinalReport(files, allComments, fileResults, overallSummary)
    /\ UNCHANGED <<files, filesToReview, fileIdx, allComments, fileResults,
                   overallSummary, calls>>

\* await this.github.createReview(...) (client.ts 365, 379)
CreateReviewReturn ==
    /\ pc = "createReview"
    /\ (Return \/ Abort)
    /\ UNCHANGED <<maxFiles, postAsReview, mapVars, parseVars, cmVars, retryVars>>

\* await this.github.postReviewComments(allComments), then
\* postGeneralComment(reviewBody) (client.ts 367-368)
PostReviewCommentsReturn ==
    /\ pc = "postReviewComments"
    /\ \/ /\ pc' = "postGeneralComment"
          /\ calls' = Append(calls,
                 [op |-> "postGeneralComment",
                  body |-> ReviewBody(overallSummary, fileResults),
                  threw |-> FALSE])
          /\ UNCHANGED <<files, filesToReview, fileIdx, allComments,
                         fileResults, overallSummary, report>>
       \/ Abort
    /\ UNCHANGED <<maxFiles, postAsReview, mapVars, parseVars, cmVars, retryVars>>

\* await this.github.postGeneralComment(...) (client.ts 368, 381)
PostGeneralCommentReturn ==
    /\ pc = "postGeneralComment"
    /\ (Return \/ Abort)
    /\ UNCHANGED <<maxFiles, postAsReview, mapVars, parseVars, cmVars, retryVars>>

Next ==
    \/ PRDetailsReturn
    \/ ChangedFilesReturn
    \/ ReviewFileReturn
    \/ GenerateSummaryReturn
    \/ CreateReviewReturn
    \/ PostReviewCommentsReturn
    \/ PostGeneralCommentReturn

Spec == Init /\ [][Next]_vars

-----------------------------------------------------------------------------
(* SpecMapRaw: mapLineToDiff on patches as split leaves them, with lines   *)
(* that are no line of a well-formed hunk                                  *)

\* "@@ -1 +x @@": looks like a hunk header, fails the pattern
MalformedHeader == <<"@", "@", " ", "-", "1", " ", "+", "x", " ", "@", "@">>

\* the empty string that split leaves after the last newline of a patch
EmptyLine == << >>

RawDiffLine ==
    { HunkHeaderShort(1, 1), HunkHeader(2, 1, 3, 2), MalformedHeader,
      ContextLine, AddedLine, RemovedLine, NoNewlineMarker, EmptyLine }

MapRawInit ==
    /\ patchLines \in SeqsUpTo(RawDiffLine, MaxPatchLen)
    /\ targetLine \in Target
    /\ i = 0
    /\ currentLine = 0
    /\ inHunk = FALSE
    /\ mapResult = NULL
    /\ mapPc = "loop"
    /\ ParseIdle
    /\ CommentsIdle
    /\ RunIdle
    /\ RetryIdle

SpecMapRaw == MapRawInit /\ [][MapNext]_vars

\* the line the next iteration of the loop reads
AtLine == mapPc = "loop" /\ i < Len(patchLines)
ThisLine == patchLines[i + 1]

LooksLikeHeader(line) == HasLitAt(line, 1, <<"@", "@">>)

\* line k comes after a valid hunk header, with no line in between that
\* looks like a header
InsideHunk(lines, k) ==
    \E h \in 1..(k - 1) :
        /\ IsHeaderLine(lines[h])
        /\ \A j \in (h + 1)..(k - 1) : ~LooksLikeHeader(lines[j])

\* C25: lines before the first valid hunk header are never counted and never
\* matched; after a line that looks like a hunk header but fails the
\* pattern no line is counted or matched until the next valid header, also
\* when a valid hunk preceded the malformed header.
C25_NothingCountedOutsideAHunk ==
    [][(AtLine /\ ~IsHeaderLine(ThisLine) /\ ~LooksLikeHeader(ThisLine)
          /\ ~InsideHunk(patchLines, i + 1))
       => (currentLine' = currentLine /\ mapResult' = NULL)]_vars

\* C29: inside a hunk only context lines and added lines advance the
\* new-file line counter; the no-newline marker and the empty string after
\* the last newline leave it unchanged, so that the number given to every
\* following added line is its line number in the new file.
C29_OnlyContextAndAddedAdvance ==
    [][AtLine =>
         /\ (~IsHeaderLine(ThisLine) /\ ~IsAddedLine(ThisLine)
               /\ ~IsContextLine(ThisLine))
            => currentLine' = currentLine
         /\ (mapResult' # NULL /\ ValidDiff(patchLines))
            => JsInt(NewFileNo(patchLines, mapResult')) = targetLine]_vars

\* C27: comment construction never fails on validator output: for every
\* list of validated issues (also with a category or severity that is not a
\* string) createReviewComments completes without throwing.
C27_CommentConstructionNeverThrows ==
    CommentsDone => ~cmOut.threw

-----------------------------------------------------------------------------
(* Claims about runReview (Spec) *)

CallOps == { calls[k].op : k \in 1..Len(calls) }

\* C10: when getChangedFiles returns an empty list, runReview returns the
\* all-zero report with summary "No files to review" and makes no call to
\* reviewCode, generateSummary, createReview, postReviewComments or
\* postGeneralComment.
C10_EmptyRunReportsAndCallsNothing ==
    ("getChangedFiles" \in CallOps /\ pc # "getChangedFiles" /\ pc # "aborted"
       /\ Len(files) = 0)
    => /\ pc = "done"
       /\ report = [totalFiles |-> 0, filesReviewed |-> 0, totalComments |-> 0,
                    criticalIssues |-> 0, warnings |-> 0, suggestions |-> 0,
                    summary |-> "No files to review"]
       /\ CallOps = {"getPRDetails", "getChangedFiles"}

\* a run whose file list came back empty has returned
C10_Witness ==
    /\ pc = "done"
    /\ "getChangedFiles" \in CallOps
    /\ Len(files) = 0
    /\ report.totalFiles = 0
    /\ Len(calls) = 2

\* the logged calls of reviewCode, in call order
ReviewCalls == SelectSeq(calls, LAMBDA c : c.op = "reviewCode")

\* a file that is neither removed nor without diff text
Eligible(f) ==
    /\ f.status # "removed"
    /\ f.patch # Undefined
    /\ f.patch # PatchText(<< >>)

\* the file list was fetched and is not empty
Fetched == pc \notin {"getPRDetails", "getChangedFiles"} /\ Len(files) > 0

\* the loop over the files has ended
LoopOver == Fetched /\ pc # "reviewCode"

\* some call of reviewCode was made for position p of the fetched list
ReviewedAt(p) == \E k \in 1..Len(ReviewCalls) : ReviewCalls[k].position = p

\* C11: with maxFiles = M > 0 and more than M files fetched, reviewCode is
\* called only for files among the first M in fetch order; the files beyond
\* M are not counted in filesReviewed (which is exactly M when the first M
\* files are eligible and their reviews succeed).  With maxFiles = 0 no file
\* is excluded by the limit.
C11_LimitKeepsFirstFiles ==
    Fetched =>
      /\ \A k \in 1..Len(ReviewCalls) :
            LET p == ReviewCalls[k].position
            IN  /\ p \in 1..Len(files)
                /\ ReviewCalls[k].file = files[p].filename
                /\ maxFiles > 0 => p <= maxFiles
      /\ maxFiles > 0 => Len(fileResults) <= maxFiles
      /\ (pc = "done" /\ maxFiles > 0 /\ Len(files) > maxFiles
           /\ (\A p \in 1..maxFiles : Eligible(files[p]))
           /\ (\A k \in 1..Len(ReviewCalls) : ~ReviewCalls[k].threw))
         => report.filesReviewed = maxFiles
      /\ (LoopOver /\ maxFiles = 0)
         => \A p \in 1..Len(files) : Eligible(files[p]) => ReviewedAt(p)

\* a completed run in which the limit cut an eligible file off
C11_Witness ==
    /\ pc = "done"
    /\ maxFiles > 0
    /\ Len(files) > maxFiles
    /\ \A p \in 1..Len(files) : Eligible(files[p])
    /\ \A k \in 1..Len(ReviewCalls) : ~ReviewCalls[k].threw
    /\ report.filesReviewed = maxFiles
    /\ report.totalFiles = Len(files)

\* some setup call (getPRDetails, getChangedFiles) has thrown
SetupFailed ==
    \E k \in 1..Len(calls) :
        calls[k].op \in {"getPRDetails", "getChangedFiles"} /\ calls[k].threw

\* C12: if getPRDetails or getChangedFiles fails, runReview aborts with that
\* error: no report is returned and no call to reviewCode, generateSummary
\* or a posting operation is made in that run.
C12_SetupFailureAborts ==
    SetupFailed =>
      /\ pc = "aborted"
      /\ report = NoReport
      /\ calls[Len(calls)].threw
      /\ CallOps \subseteq {"getPRDetails", "getChangedFiles"}

\* the run was aborted by a failure of getChangedFiles
C12_Witness ==
    /\ pc = "aborted"
    /\ Len(calls) = 2
    /\ calls[2].op = "getChangedFiles"
    /\ calls[2].threw
    /\ report = NoReport

\* C13: for a file whose status is "removed" or whose patch text is absent
\* or empty, reviewCode is never called, and the file is not counted in
\* filesReviewed and contributes no comments or severity counts.
C13_SkippedFilesAreNotReviewed ==
    Fetched =>
      /\ \A k \in 1..Len(ReviewCalls) :
            Eligible(files[ReviewCalls[k].position])
      /\ \A p \in 1..Len(files) :
            ~Eligible(files[p]) =>
              /\ \A k \in 1..Len(ReviewCalls) :
                    ReviewCalls[k].file # files[p].filename
              /\ \A k \in 1..Len(fileResults) :
                    fileResults[k].filePath # files[p].filename
              /\ \A k \in 1..Len(allComments) :
                    allComments[k].path # files[p].filename
      /\ Len(fileResults) <= Len(ReviewCalls)
      /\ pc = "done" =>
            report.filesReviewed
              <= Len(SelectSeq(filesToReview, Eligible))

\* a completed run that skipped a file without diff text and reviewed the
\* file after it
C13_Witness ==
    /\ pc = "done"
    /\ Len(files) = 2
    /\ ~Eligible(files[1])
    /\ files[1].status # "removed"
    /\ Eligible(files[2])
    /\ Len(ReviewCalls) = 1
    /\ ReviewCalls[1].position = 2
    /\ report.filesReviewed = 1

\* the positions in the call log of the reviews that returned
ReturnedReviews ==
    SelectSeq(ReviewCalls, LAMBDA c : c.engine # "pending" /\ ~c.threw)

PostingOps == {"createReview", "postReviewComments", "postGeneralComment"}

\* C14: when reviewCode throws for a file, that file adds nothing to the
\* comment list, to the per-file outcome list or to a severity count, every
\* later file of the limited list is still processed, and the run proceeds
\* to summary generation and posting.
C14_FailedReviewIsSkippedOver ==
    Fetched =>
      /\ \A k \in 1..Len(calls) :
            (calls[k].op = "reviewCode" /\ calls[k].engine = "error") =>
              \* reviewCode threw, and another call followed
              /\ calls[k].threw
              /\ k < Len(calls)
              /\ calls[k + 1].op \in {"reviewCode", "generateSummary"}
              /\ calls[k + 1].op = "reviewCode" => calls[k + 1].position > calls[k].position
      \* the outcomes are those of the reviews that returned, in order
      /\ Len(fileResults) = Len(ReturnedReviews)
      /\ \A j \in 1..Len(fileResults) :
            fileResults[j].filePath = ReturnedReviews[j].file
      /\ Len(allComments) = SumOf(fileResults, "issueCount")
      \* no eligible file of the limited list is left out
      /\ LoopOver =>
            /\ \A p \in 1..Len(filesToReview) :
                  Eligible(filesToReview[p]) => ReviewedAt(p)
            /\ "generateSummary" \in CallOps
      /\ pc \in {"done", "aborted"} => CallOps \cap PostingOps # {}

\* a completed run whose first review failed and whose second returned
C14_Witness ==
    /\ pc = "done"
    /\ Len(ReviewCalls) = 2
    /\ ReviewCalls[1].engine = "error"
    /\ ReviewCalls[1].threw
    /\ ~ReviewCalls[2].threw
    /\ report.filesReviewed = 1
    /\ report.totalComments > 0

\* C15: once the file list has been fetched and is not empty, the run
\* reaches Done and returns a report: a failure of a file review, of the
\* summary or of createReview, postReviewComments or postGeneralComment does
\* not abort the run.
C15_OnlySetupFailureAborts ==
    Fetched => pc # "aborted"

\* the logged posting calls, in call order, without their outcome
PostingCalls ==
    LET posts == SelectSeq(calls, LAMBDA c : c.op \in PostingOps)
    IN  [k \in 1..Len(posts) |-> [posts[k] EXCEPT !.threw = FALSE]]

\* the call pattern that (postAsReview, totalComments) selects
ExpectedPosting ==
    LET body == formatReviewBody(overallSummary, fileResults,
                                 SumOf(fileResults, "criticalCount"),
                                 SumOf(fileResults, "warningCount"),
                                 SumOf(fileResults, "suggestionCount"))
        approval == approvalBody(overallSummary)
    IN  IF postAsReview /\ Len(allComments) > 0
        THEN <<[op |-> "createReview", comments |-> allComments, body |-> body,
                event |-> "COMMENT", threw |-> FALSE]>>
        ELSE IF postAsReview
        THEN <<[op |-> "createReview", comments |-> << >>, body |-> approval,
                event |-> "APPROVE", threw |-> FALSE]>>
        ELSE IF Len(allComments) > 0
        THEN <<[op |-> "postReviewComments", comments |-> allComments,
                threw |-> FALSE],
               [op |-> "postGeneralComment", body |-> body, threw |-> FALSE]>>
        ELSE <<[op |-> "postGeneralComment", body |-> approval, threw |-> FALSE]>>

\* C16: in every run that reaches posting exactly one of four call patterns
\* occurs, chosen by (postAsReview, totalComments): one createReview with
\* the comments and "COMMENT"; one createReview with no comments, the
\* approval body and "APPROVE"; postReviewComments followed by
\* postGeneralComment; or one postGeneralComment with the approval body.
\* createReview is used exactly when postAsReview is set.
C16_PostingPattern ==
    (Fetched /\ pc \in {"done", "aborted"}) =>
      /\ PostingCalls = ExpectedPosting
      /\ ("createReview" \in CallOps) <=> postAsReview

\* the positions in the call log of the calls of an operation
CallsOf(ops) == { k \in 1..Len(calls) : calls[k].op \in ops }

\* C17: in a run with a non-empty file list generateSummary is called
\* exactly once, after the last file review and before any posting call; if
\* the engine call behind it fails, generateSummary does not throw but
\* returns the templated text with the number of per-file outcomes, and the
\* run goes on to posting with that text as the report summary.
C17_SummaryOnceWithFallback ==
    Fetched =>
      /\ Cardinality(CallsOf({"generateSummary"})) = (IF LoopOver THEN 1 ELSE 0)
      /\ \A g \in CallsOf({"generateSummary"}) :
            /\ \A r \in CallsOf({"reviewCode"}) : r < g
            /\ \A q \in CallsOf(PostingOps) : g < q
            /\ ~calls[g].threw
            /\ Len(calls[g].fileReviews) = Len(fileResults)
            /\ calls[g].engine = "error" =>
                  /\ overallSummary
                       = "Reviewed " \o NumText(Len(fileResults)) \o " file(s)"
                  /\ g < Len(calls)
                  /\ calls[g + 1].op \in PostingOps
                  /\ pc # "generateSummary"
                  /\ pc = "done" => report.summary = overallSummary

\* a completed run of two reviewed files whose summary call failed
C17_Witness ==
    /\ pc = "done"
    /\ \E g \in CallsOf({"generateSummary"}) : calls[g].engine = "error"
    /\ Len(fileResults) = 2
    /\ report.summary = "Reviewed 2 file(s)"

\* the number of elements of a sequence that satisfy a test
Count(seq, Test(_)) == Len(SelectSeq(seq, Test))

\* the reviews for which reviewCode returned (the engine call did not fail)
ReviewCodeReturned(c) == c.engine \in {"empty", "text"}
ReviewCodeThrew(c) == c.engine = "error"
NotEligible(f) == ~Eligible(f)

\* C18: in the report of a completed run totalFiles is the number of files
\* fetched before limiting; filesReviewed is the number of files for which
\* reviewCode returned, that is the files of the limited list less those
\* skipped and those whose review failed, and at most totalFiles;
\* totalComments, criticalIssues, warnings and suggestions are the sums of
\* the per-file values over the files counted in filesReviewed.
C18_ReportArithmetic ==
    (Fetched /\ pc = "done") =>
      /\ report.totalFiles = Len(files)
      /\ report.filesReviewed = Count(ReviewCalls, ReviewCodeReturned)
      /\ report.filesReviewed
           = Len(filesToReview) - Count(filesToReview, NotEligible)
               - Count(ReviewCalls, ReviewCodeThrew)
      /\ report.filesReviewed <= report.totalFiles
      /\ Len(fileResults) = report.filesReviewed
      /\ report.totalComments = SumOf(fileResults, "issueCount")
      /\ report.criticalIssues = SumOf(fileResults, "criticalCount")
      /\ report.warnings = SumOf(fileResults, "warningCount")
      /\ report.suggestions = SumOf(fileResults, "suggestionCount")

\* the place of an operation in the order of a run
Rank(op) ==
    CASE op = "getPRDetails" -> 1
      [] op = "getChangedFiles" -> 2
      [] op = "reviewCode" -> 3
      [] op = "generateSummary" -> 4
      [] OTHER -> 5

ExternalCall ==
    {"getPRDetails", "getChangedFiles", "reviewCode", "generateSummary",
     "createReview", "postReviewComments", "postGeneralComment"}

\* the positions of the limited list whose file is not skipped, in order
EligiblePositions ==
    SelectSeq([p \in 1..Len(filesToReview) |-> p],
              LAMBDA p : Eligible(filesToReview[p]))

\* a logged call has finished: it is not the one awaited
Finished(k) == k < Len(calls) \/ pc \notin ExternalCall

\* C22: at most one external call is in flight at any time, and the calls
\* occur in the order getPRDetails, getChangedFiles, reviewCode for the
\* non-skipped files in fetch order, generateSummary, then the posting
\* calls; no posting call starts before the last reviewCode call finished.
C22_OneCallAtATimeInOrder ==
    \* the awaited call is the last one issued, every earlier one has settled
    /\ pc \in ExternalCall => calls[Len(calls)].op = pc
    /\ \A k \in 1..Len(calls) :
          /\ calls[k].op \in {"reviewCode", "generateSummary"} =>
                (calls[k].engine = "pending" <=> ~Finished(k))
          /\ calls[k].threw => Finished(k)
    /\ \A j, k \in 1..Len(calls) :
          j < k =>
            /\ Rank(calls[j].op) <= Rank(calls[k].op)
            /\ Rank(calls[j].op) \in {1, 2, 4}
                  => Rank(calls[j].op) < Rank(calls[k].op)
    /\ calls[1].op = "getPRDetails"
    /\ Len(calls) > 1 => calls[2].op = "getChangedFiles"
    \* the reviews are those of the non-skipped files, in fetch order
    /\ Len(ReviewCalls) <= Len(EligiblePositions)
    /\ \A k \in 1..Len(ReviewCalls) :
          /\ ReviewCalls[k].position = EligiblePositions[k]
          /\ ReviewCalls[k].file = files[EligiblePositions[k]].filename
    /\ (CallsOf({"generateSummary"}) # {})
          => Len(ReviewCalls) = Len(EligiblePositions)
    /\ \A q \in CallsOf(PostingOps) :
          \A r \in CallsOf({"reviewCode"}) :
              r < q /\ calls[r].engine # "pending"

\* a run of two reviewed files awaiting its second posting call
C22_Witness ==
    /\ pc = "postGeneralComment"
    /\ Len(ReviewCalls) = 2
    /\ Cardinality(CallsOf(PostingOps)) = 2
    /\ Len(calls) = 7

\* the lines of the patch of the file a review call was made for
PatchLinesOf(c) == split(PatchOrEmpty(files[c.position]))

\* the diff position of an issue of a review call, NULL if its line does
\* not map
PositionOf(c, issue) == mapLineToDiff(Prop(issue, "line"), PatchLinesOf(c))

\* the issues of a review call whose line maps, in the order of the issues
MappedIssues(c) ==
    SelectSeq(c.reviews, LAMBDA issue : PositionOf(c, issue) # NULL)

\* one (path, position) per mapped issue of a review call
MappedPlaces(c) ==
    LET lines == PatchLinesOf(c)
        at == [k \in 1..Len(c.reviews) |->
                        mapLineToDiff(Prop(c.reviews[k], "line"), lines)]
        mapped == SelectSeq([k \in 1..Len(c.reviews) |-> k],
                            LAMBDA k : at[k] # NULL)
    IN  [k \in 1..Len(mapped) |->
            [path |-> c.file, line |-> at[mapped[k]]]]

\* the per-file places of a list of review calls, one after the other
RECURSIVE PlacesOfAll(_)
PlacesOfAll(reviewCalls) ==
    IF reviewCalls = << >> THEN << >>
    ELSE MappedPlaces(reviewCalls[1]) \o PlacesOfAll(Tail(reviewCalls))

PlacesOf(comments) ==
    [k \in 1..Len(comments) |->
        [path |-> comments[k].path, line |-> comments[k].line]]

WithSeverity(c, names) ==
    Len(SelectSeq(c.reviews,
                  LAMBDA issue : \E n \in names : Prop(issue, "severity") = JStr(n)))

\* C24: for each reviewed file the three severity counts partition the
\* validated issues: criticalCount counts severity critical, warningCount
\* severity warning, suggestionCount severity suggestion or info, and the
\* three add up to the number of validated issues of the file.
C24_SeverityCountsPartition ==
    Fetched =>
      \A j \in 1..Len(fileResults) :
          LET c == ReturnedReviews[j]
              r == fileResults[j]
          IN  /\ r.criticalCount = WithSeverity(c, {"critical"})
              /\ r.warningCount = WithSeverity(c, {"warning"})
              /\ r.suggestionCount = WithSeverity(c, {"suggestion", "info"})
              /\ r.criticalCount + r.warningCount + r.suggestionCount
                   = Len(c.reviews)

\* the run has posted the approval message
ApprovalPosted ==
    \E q \in CallsOf(PostingOps) :
        \/ calls[q].op = "createReview" /\ calls[q].event = "APPROVE"
        \/ calls[q].op = "postGeneralComment"
             /\ calls[q].body = approvalBody(overallSummary)

\* C26: whenever a run posts the approval message, its report has
\* criticalIssues = 0, warnings = 0 and suggestions = 0.
C26_ApprovalMeansNoIssues ==
    (pc = "done" /\ ApprovalPosted) =>
      /\ report.criticalIssues = 0
      /\ report.warnings = 0
      /\ report.suggestions = 0

\* the comments handed to the posting calls
PostedComments ==
    UNION { { calls[q].comments[k] : k \in 1..Len(calls[q].comments) } :
              q \in CallsOf({"createReview", "postReviewComments"}) }

\* C28: every comment handed to a posting call has side "RIGHT", the path of
\* a file reviewed in this run, and a line p within that file's patch such
\* that patch line p lies after a hunk header and begins with '+'.
C28_CommentsPointAtAddedLines ==
    \A c \in PostedComments :
        /\ c.side = "RIGHT"
        /\ \E j \in 1..Len(ReturnedReviews) :
              /\ ReturnedReviews[j].file = c.path
              /\ LET lines == PatchLinesOf(ReturnedReviews[j])
                 IN  /\ c.line \in 1..Len(lines)
                     /\ IsAddedLine(lines[c.line])
                     /\ ~IsHeaderLine(lines[c.line])
                     /\ \E h \in 1..(c.line - 1) : IsHeaderLine(lines[h])

\* comments on both reviewed files were handed to createReview
C28_Witness ==
    /\ pc = "done"
    /\ \E c \in PostedComments : c.path = "a.ts" /\ c.line = 2
    /\ \E c \in PostedComments : c.path = "b.ts" /\ c.line = 3
    /\ CallsOf({"createReview"}) # {}

-----------------------------------------------------------------------------
(* withRetry.  Its source (utils/retry) is not part of the sources at hand; *)
(* it is modelled from its description: attempts run one at a time, a      *)
(* failure that the retryable predicate rejects is surfaced at once, a     *)
(* retryable failure is followed by a wait that doubles from a fixed base  *)
(* while attempts remain, and after maxAttempts failures the last error is *)
(* propagated.  The options are those of the call in reviewCode.           *)

\* the mutant of retryableErrors: an authentication failure is retried too
retryableErrors_With401 ==
    {"429", "503", "502", "504", "ETIMEDOUT", "ECONNRESET", "401"}

\* retryableErrors of the call in reviewCode (client.ts 58)
retryableErrors == {"429", "503", "502", "504", "ETIMEDOUT", "ECONNRESET"}

\* errors that handleError tells apart and that are not in the list
\* (client.ts 177-179)
FatalError == {"401", "400"}

\* the first delay, as the unit of time
BaseDelay == 1

Success(value) == [ok |-> TRUE, v |-> value]
Failure(error) == [ok |-> FALSE, v |-> error]

\* how one invocation of the operation can end
InvocationOutcome ==
    {Success("completion")}
      \cup {Failure(e) : e \in retryableErrors \cup FatalError}

isRetryable(error) == error \in retryableErrors

RECURSIVE Pow2(_)
Pow2(n) == IF n = 0 THEN 1 ELSE 2 * Pow2(n - 1)

\* the wait after the n-th failed invocation
Delay(n) == BaseDelay * Pow2(n - 1)

\* the mutant of AfterInvocation: one invocation more than maxAttempts
AfterInvocation_OneMore(o, n, max) ==
    IF o.ok THEN "returned"
    ELSE IF ~isRetryable(o.v) \/ n > max THEN "threw"
    ELSE "wait"

\* the mutant of AfterInvocation: the last attempt is not used
AfterInvocation_OneShort(o, n, max) ==
    IF o.ok THEN "returned"
    ELSE IF ~isRetryable(o.v) \/ n >= max - 1 THEN "threw"
    ELSE "wait"

\* what follows the n-th invocation, which ended with o
AfterInvocation(o, n, max) ==
    IF o.ok THEN "returned"
    ELSE IF ~isRetryable(o.v) \/ n >= max THEN "threw"
    ELSE "wait"

RetryInit ==
    /\ maxAttempts \in 1..MaxAttempts
    /\ attempt = 0
    /\ inFlight = 0
    /\ outcomes = << >>
    /\ waits = << >>
    /\ retryOut = NoRetryOutcome
    /\ retryPc = "invoke"
    /\ MapIdle
    /\ ParseIdle
    /\ CommentsIdle
    /\ RunIdle

\* the operation is invoked
RetryInvoke ==
    /\ retryPc = "invoke"
    /\ attempt' = attempt + 1
    /\ inFlight' = inFlight + 1
    /\ retryPc' = "inflight"
    /\ UNCHANGED <<maxAttempts, outcomes, waits, retryOut,
                   mapVars, parseVars, cmVars, runVars>>

\* the invocation in flight settles
RetrySettle ==
    /\ retryPc = "inflight"
    /\ \E o \in InvocationOutcome :
          LET then == AfterInvocation(o, attempt, maxAttempts)
          IN  /\ outcomes' = Append(outcomes, o)
              /\ inFlight' = inFlight - 1
              /\ retryPc' = then
              /\ retryOut' = IF then = "wait" THEN retryOut ELSE o
    /\ UNCHANGED <<maxAttempts, attempt, waits, mapVars, parseVars, cmVars, runVars>>

\* the wait before the next invocation
RetryWait ==
    /\ retryPc = "wait"
    /\ waits' = Append(waits, Delay(attempt))
    /\ retryPc' = "invoke"
    /\ UNCHANGED <<maxAttempts, attempt, inFlight, outcomes, retryOut,
                   mapVars, parseVars, cmVars, runVars>>

RetryNext == RetryInvoke \/ RetrySettle \/ RetryWait

SpecRetry == RetryInit /\ [][RetryNext]_vars

-----------------------------------------------------------------------------
(* Claims about withRetry (SpecRetry) *)

\* the conditions named as retryable for the per-file review call
TransientError == {"429", "502", "503", "504", "ETIMEDOUT", "ECONNRESET"}

RetryableFailure(o) == ~o.ok /\ o.v \in TransientError
FatalFailure(o) == ~o.ok /\ o.v \notin TransientError

\* C19: the retry wrapper returns the first success: when the operation
\* fails with a retryable error on its first k-1 invocations and succeeds on
\* invocation k <= maxAttempts, the wrapper returns that value after exactly
\* k invocations, and the operation is never invoked after a success.
C19_FirstSuccessIsReturned ==
    /\ \A k \in 1..Len(outcomes) :
          outcomes[k].ok =>
            /\ k = Len(outcomes)
            /\ k <= maxAttempts
            /\ attempt = k
            /\ inFlight = 0
            /\ retryPc = "returned"
            /\ retryOut = outcomes[k]
            /\ \A j \in 1..(k - 1) : RetryableFailure(outcomes[j])
    \* while attempts remain, retryable failures do not end the call
    /\ (\A k \in 1..Len(outcomes) : RetryableFailure(outcomes[k]))
         => (retryPc \in {"returned", "threw"} => Len(outcomes) = maxAttempts)
    /\ retryPc = "returned" => outcomes # << >> /\ outcomes[Len(outcomes)].ok

\* two retryable failures, then a success, with maxAttempts = 3
C19_Witness ==
    /\ maxAttempts = 3
    /\ retryPc = "returned"
    /\ attempt = 3
    /\ Len(outcomes) = 3
    /\ RetryableFailure(outcomes[1])
    /\ RetryableFailure(outcomes[2])
    /\ retryOut = Success("completion")

\* C20: when an invocation fails with an error outside 429, 502, 503, 504,
\* ETIMEDOUT, ECONNRESET, the wrapper surfaces that error at once: the
\* operation has been invoked exactly once more than the number of
\* retryable failures before it, exactly once when the first invocation is
\* fatal, whatever maxAttempts is.
C20_FatalErrorIsSurfacedAtOnce ==
    \A k \in 1..Len(outcomes) :
        FatalFailure(outcomes[k]) =>
          /\ k = Len(outcomes)
          /\ retryPc = "threw"
          /\ retryOut = outcomes[k]
          /\ inFlight = 0
          /\ \A j \in 1..(k - 1) : RetryableFailure(outcomes[j])
          /\ attempt = Len(SelectSeq(outcomes, RetryableFailure)) + 1

\* a first invocation that is fatal, with attempts to spare
C20_Witness ==
    /\ maxAttempts = MaxAttempts
    /\ retryPc = "threw"
    /\ attempt = 1
    /\ outcomes = <<Failure("401")>>
    /\ retryOut = Failure("401")

\* every settled invocation so far failed with a retryable error
OnlyRetryableFailures ==
    \A k \in 1..Len(outcomes) : RetryableFailure(outcomes[k])

\* C21: when every invocation fails with a retryable error the wrapper
\* invokes the operation exactly maxAttempts times and never more, with at
\* most one invocation in flight, no wait before the first invocation and a
\* wait that doubles between consecutive invocations, and then propagates
\* the error of the last invocation.
C21_ExhaustedRetriesThrowLastError ==
    /\ inFlight <= 1
    /\ attempt <= maxAttempts
    /\ Len(outcomes) = attempt - inFlight
    \* one wait between two consecutive invocations, none before the first
    /\ Len(waits) = (IF attempt = 0 THEN 0
                     ELSE IF retryPc = "wait" THEN attempt - 1
                     ELSE IF retryPc = "invoke" THEN attempt
                     ELSE attempt - 1)
    /\ \A k \in 1..Len(waits) :
          waits[k] = (IF k = 1 THEN BaseDelay ELSE 2 * waits[k - 1])
    /\ (OnlyRetryableFailures /\ retryPc \in {"returned", "threw"}) =>
          /\ retryPc = "threw"
          /\ attempt = maxAttempts
          /\ Len(outcomes) = maxAttempts
          /\ retryOut = outcomes[maxAttempts]

\* three retryable failures with maxAttempts = 3, the last error differing
\* from the earlier ones
C21_Witness ==
    /\ maxAttempts = 3
    /\ retryPc = "threw"
    /\ attempt = 3
    /\ outcomes = <<Failure("429"), Failure("429"), Failure("503")>>
    /\ waits = <<BaseDelay, 2 * BaseDelay>>
    /\ retryOut = Failure("503")

====
